---- MODULE Spec2Model ----
(***************************************************************************)
(* The JOS kernel monitor (kern/monitor.c): the monitor loop, the command  *)
(* interpreter runcmd with its tokenizer and first-match dispatch, and the *)
(* six registered commands, over a page table reached through pgdir_walk.  *)
(*                                                                         *)
(* Characters are their ASCII codes, a C string is the sequence of its     *)
(* characters before the terminating NUL, and a char* into the line buffer *)
(* is a 1-based position in it (0 is the null pointer).                    *)
(***************************************************************************)
EXTENDS Integers, Sequences, FiniteSets, TLC

(***************************************************************************)
(* Bounds of the model.                                                    *)
(***************************************************************************)
\* free physical pages the memory manager starts with, at most
MaxFree == 1
\* depth of the saved-frame-pointer chain below the monitor, at most
MaxDepth == 3
\* lookups one showmp is followed for, at most (its loop need not end)
MaxLookups == 4
\* xtoi calls made on one token buffer, at most
MaxCalls == 2

(***************************************************************************)
(* Words of the input lines.                                               *)
(***************************************************************************)
s_help == <<104, 101, 108, 112>>
s_kerninfo == <<107, 101, 114, 110, 105, 110, 102, 111>>
s_backtrace == <<98, 97, 99, 107, 116, 114, 97, 99, 101>>
s_showmp == <<115, 104, 111, 119, 109, 112>>
s_setperm == <<115, 101, 116, 112, 101, 114, 109>>
s_showvm == <<115, 104, 111, 119, 118, 109>>
s_hel == <<104, 101, 108>>
s_helpx == <<104, 101, 108, 112, 120>>
s_0x1000 == <<48, 120, 49, 48, 48, 48>>
s_0x2000 == <<48, 120, 50, 48, 48, 48>>
s_0x400000 == <<48, 120, 52, 48, 48, 48, 48, 48>>
s_0x1001 == <<48, 120, 49, 48, 48, 49>>
s_0xfffff000 == <<48, 120, 102, 102, 102, 102, 102, 48, 48, 48>>
s_0x0 == <<48, 120, 48>>
s_0x2 == <<48, 120, 50>>
s_0 == <<48>>
s_1 == <<49>>
s_P == <<80>>
s_W == <<87>>
s_U == <<85>>
s_X == <<88>>
s_a == <<97>>

(***************************************************************************)
(* C strings and 32-bit words.                                             *)
(***************************************************************************)
\* *p for a char* p into buf: the terminator follows the last character
CharAt(buf, p) == IF p \in 1..Len(buf) THEN buf[p] ELSE 0

\* the C string that starts at position p of buf
RECURSIVE cstr_from(_, _, _)
cstr_from(buf, p, acc) ==
    IF CharAt(buf, p) = 0 THEN acc
    ELSE cstr_from(buf, p + 1, Append(acc, buf[p]))

cstr(buf, p) == cstr_from(buf, p, <<>>)

\* strcmp(a, b) from position i on: the difference of the first two
\* characters that differ, 0 when both strings end together
RECURSIVE strcmp_from(_, _, _)
strcmp_from(a, b, i) ==
    IF CharAt(a, i) # CharAt(b, i) THEN CharAt(a, i) - CharAt(b, i)
    ELSE IF CharAt(a, i) = 0 THEN 0
    ELSE strcmp_from(a, b, i + 1)

\* strncmp(a, b, strlen(a)): 0 when a is a prefix of b (used by a mutant)
strcmp_prefix(a, b) ==
    IF Len(a) <= Len(b) /\ SubSeq(b, 1, Len(a)) = a THEN 0 ELSE 1

strcmp(a, b) == strcmp_from(a, b, 1)

\* strchr(s, c) != NULL, s given as the set of its characters: the
\* terminator of s is found too
strchr(s, c) == c = 0 \/ c \in s

\* bitwise and / or of two natural numbers
RECURSIVE BitAnd(_, _)
BitAnd(x, y) ==
    IF x = 0 \/ y = 0 THEN 0
    ELSE 2 * BitAnd(x \div 2, y \div 2) + (IF x % 2 = 1 /\ y % 2 = 1 THEN 1 ELSE 0)

RECURSIVE BitOr(_, _)
BitOr(x, y) ==
    IF x = 0 THEN y
    ELSE IF y = 0 THEN x
    ELSE 2 * BitOr(x \div 2, y \div 2) + (IF x % 2 = 1 \/ y % 2 = 1 THEN 1 ELSE 0)

\* A 32-bit word is kept as its page number (the upper 20 bits) and its
\* offset in the page (the lower 12 bits): W(hi, lo) is hi * 4096 + lo.
PGSIZE == 4096
NPAGES == 1048576

W(hi, lo) == [hi |-> hi, lo |-> lo]

\* x + n modulo 2^32, for a small integer n of either sign
WAdd(x, n) ==
    W((x.hi + ((x.lo + n) \div PGSIZE)) % NPAGES, (x.lo + n) % PGSIZE)

\* x * 16 modulo 2^32
WMul16(x) == W((x.hi * 16 + (x.lo \div 256)) % NPAGES, (x.lo % 256) * 16)

\* x <= y, unsigned
WLe(x, y) == x.hi < y.hi \/ (x.hi = y.hi /\ x.lo <= y.lo)

WAnd(x, y) == W(BitAnd(x.hi, y.hi), BitAnd(x.lo, y.lo))
WOr(x, y) == W(BitOr(x.hi, y.hi), BitOr(x.lo, y.lo))
WNot(x) == W(NPAGES - 1 - x.hi, PGSIZE - 1 - x.lo)

(***************************************************************************)
(* kern/monitor.c: the tokenizer and the registry.                         *)
(***************************************************************************)
\* mutant: "\t\r\n", the space left out
WHITESPACE_nospace == {9, 13, 10}

WHITESPACE == {9, 13, 10, 32}
MAXARGS == 16

commands == <<
    [name |-> s_help,      func |-> "mon_help"],
    [name |-> s_kerninfo,  func |-> "mon_kerninfo"],
    [name |-> s_backtrace, func |-> "mon_backtrace"],
    [name |-> s_showmp,    func |-> "showmappings"],
    [name |-> s_setperm,   func |-> "setm"],
    [name |-> s_showvm,    func |-> "showvm"] >>

\* argv[i] = v on the argument array, a function from the slots written
Store(argv, i, v) == (i :> v) @@ argv

\* while (*buf && strchr(WHITESPACE, *buf)) *buf++ = 0;
RECURSIVE gobble(_, _)
gobble(buf, p) ==
    IF CharAt(buf, p) # 0 /\ strchr(WHITESPACE, CharAt(buf, p))
    THEN gobble([buf EXCEPT ![p] = 0], p + 1)
    ELSE [buf |-> buf, p |-> p]

\* mutant: a token ends at a space only
RECURSIVE scan_tospace(_, _)
scan_tospace(buf, p) ==
    IF CharAt(buf, p) # 0 /\ CharAt(buf, p) # 32
    THEN scan_tospace(buf, p + 1)
    ELSE p

\* while (*buf && !strchr(WHITESPACE, *buf)) buf++;
RECURSIVE scan(_, _)
scan(buf, p) ==
    IF CharAt(buf, p) # 0 /\ ~strchr(WHITESPACE, CharAt(buf, p))
    THEN scan(buf, p + 1)
    ELSE p

\* mutant: argc == MAXARGS, one slot late
argv_full_late(n) == n = MAXARGS

\* the argc == MAXARGS-1 test that guards argv[argc++] = buf
argv_full(n) == n = MAXARGS - 1

\* the while (1) loop of runcmd, entered with buf at position p
RECURSIVE parse(_, _, _, _)
parse(buf, p, n, av) ==
    LET g == gobble(buf, p) IN
    IF CharAt(g.buf, g.p) = 0
    THEN [toomany |-> FALSE, buf |-> g.buf, argc |-> n, argv |-> Store(av, n, 0)]
    ELSE IF argv_full(n)
    THEN [toomany |-> TRUE, buf |-> g.buf, argc |-> n, argv |-> av]
    ELSE parse(g.buf, scan(g.buf, g.p), n + 1, Store(av, n, g.p))

\* argc = 0; argv[argc] = 0; then the loop
tokenize(l) == parse(l, 1, 0, Store(<<>>, 0, 0))

\* mutant: strncmp(argv[0], name, strlen(argv[0])), a prefix of a name matches
RECURSIVE lookup_prefix(_, _)
lookup_prefix(name, i) ==
    IF i > Len(commands) THEN 0
    ELSE IF strcmp_prefix(name, commands[i].name) = 0 THEN i
    ELSE lookup_prefix(name, i + 1)

\* mutant: the loop starts one entry late
RECURSIVE lookup_skip(_, _)
lookup_skip(name, i) ==
    IF i + 1 > Len(commands) THEN 0
    ELSE IF strcmp(name, commands[i + 1].name) = 0 THEN i + 1
    ELSE lookup_skip(name, i + 1)

\* the for loop over commands: the (1-based) index of the entry invoked
RECURSIVE lookup(_, _)
lookup(name, i) ==
    IF i > Len(commands) THEN 0
    ELSE IF strcmp(name, commands[i].name) = 0 THEN i
    ELSE lookup(name, i + 1)

\* the argument vector as the handler reads it: argv[0..n-1] as strings
RECURSIVE args_upto(_, _, _)
args_upto(buf, av, n) ==
    IF n = 0 THEN <<>>
    ELSE Append(args_upto(buf, av, n - 1), cstr(buf, av[n - 1]))

Args(r) == args_upto(r.buf, r.argv, r.argc)

\* mutant: *buf > 'a', the digit a left as it is
RECURSIVE xtoi_from_gt(_, _, _)
xtoi_from_gt(buf, p, res) ==
    IF CharAt(buf, p) = 0 THEN [res |-> res, buf |-> buf]
    ELSE LET c == IF buf[p] > 97 THEN buf[p] - 97 + 48 + 10 ELSE buf[p]
         IN  xtoi_from_gt([buf EXCEPT ![p] = c], p + 1, WAdd(WMul16(res), c - 48))

\* mutant: the character written back is itself 'a' or above
RECURSIVE xtoi_from_high(_, _, _)
xtoi_from_high(buf, p, res) ==
    IF CharAt(buf, p) = 0 THEN [res |-> res, buf |-> buf]
    ELSE LET c == IF buf[p] >= 97 THEN buf[p] - 97 + 48 + 10 ELSE buf[p]
             d == IF buf[p] >= 97 THEN c + 48 ELSE c
         IN  xtoi_from_high([buf EXCEPT ![p] = d], p + 1, WAdd(WMul16(res), c - 48))

\* xtoi's while loop from position p on, res accumulated modulo 2^32; the
\* token is rewritten in place
RECURSIVE xtoi_from(_, _, _)
xtoi_from(buf, p, res) ==
    IF CharAt(buf, p) = 0 THEN [res |-> res, buf |-> buf]
    ELSE LET c == IF buf[p] >= 97 THEN buf[p] - 97 + 48 + 10 ELSE buf[p]
         IN  xtoi_from([buf EXCEPT ![p] = c], p + 1, WAdd(WMul16(res), c - 48))

\* buf += 2; then the loop
xtoi(buf) == xtoi_from(buf, 3, W(0, 0))

(***************************************************************************)
(* The page table behind kern_pgdir.  A page-table page is 1024 entries;   *)
(* kern_pgdir is the set of page-directory indices whose table is there,   *)
(* and ptab maps the virtual page numbers whose entry is not zero to the   *)
(* entry (a freshly allocated table is all zeroes).                        *)
(***************************************************************************)
PTE_P == 1
PTE_W == 2
PTE_U == 4

PDX(va) == va.hi \div 1024
VPN(va) == va.hi

\* *pte for a pte_t* into a table that is there
Deref(pt, vpn) == IF vpn \in DOMAIN pt THEN pt[vpn] ELSE W(0, 0)

\* *pte = v
Assign(pt, vpn, v) ==
    IF v = W(0, 0) THEN [k \in (DOMAIN pt) \ {vpn} |-> pt[k]]
    ELSE [k \in (DOMAIN pt) \cup {vpn} |-> IF k = vpn THEN v ELSE pt[k]]

\* pgdir_walk(pgdir, va, create) with free pages left: the entry's place, or
\* NULL when the table is absent and cannot be (or is not to be) allocated
pgdir_walk(pgdir, free, va, create) ==
    IF PDX(va) \in pgdir
    THEN [null |-> FALSE, vpn |-> VPN(va), pgdir |-> pgdir, nfree |-> free]
    ELSE IF create = 0 \/ free = 0
    THEN [null |-> TRUE, vpn |-> 0, pgdir |-> pgdir, nfree |-> free]
    ELSE [null |-> FALSE, vpn |-> VPN(va),
          pgdir |-> pgdir \cup {PDX(va)}, nfree |-> free - 1]

\* what a read through the null pointer may find when it does not fault
NullWords == {W(0, 0), W(0, 7)}

(***************************************************************************)
(* The stack below the monitor: frame j's saved frame pointer is frame     *)
(* j-1's address, the root frame's is zero.                                *)
(***************************************************************************)
FrameAddr(j) == IF j = 0 THEN W(0, 0) ELSE W(983295, PGSIZE - 64 * j)

\* the 32-bit word at address a of the kernel stack
kstack(a) ==
    IF \E j \in 1..MaxDepth + 1 : a = FrameAddr(j)
    THEN FrameAddr((CHOOSE j \in 1..MaxDepth + 1 : a = FrameAddr(j)) - 1)
    ELSE IF \E j \in 1..MaxDepth + 1 : a = WAdd(FrameAddr(j), 4)
    THEN W(983296, 16 * (CHOOSE j \in 1..MaxDepth + 1 : a = WAdd(FrameAddr(j), 4)))
    ELSE W(0, a.lo % 256)

(***************************************************************************)
(* State.                                                                  *)
(***************************************************************************)
VARIABLES
    pc,           \* "read": monitor at readline; "showmp": in showmappings'
                  \* loop; "panic"; "exited": monitor has returned
    kern_pgdir,   \* page-directory indices with a page table
    ptab,         \* virtual page number -> non-zero entry
    nfree,        \* free physical pages
    tf,           \* monitor's trap-frame argument (0: NULL)
    ebp,          \* what read_ebp() returned to mon_backtrace for the line (0: not called)
    showmp_begin, \* showmappings' begin
    showmp_end,   \* showmappings' end
    last,         \* what the last loop iteration was: "none", "readnull", "runcmd"
    pt0,          \* the page table and free pages when that iteration began
    line,         \* the line readline returned
    buf,          \* the line buffer after runcmd's tokenizer
    argc,         \* runcmd's argc
    argv,         \* runcmd's argv: slot -> position in buf (0: null)
    calls,        \* the handler calls runcmd made for the line
    out,          \* what was printed for the line
    lookups,      \* the addresses handed to pgdir_walk for the line
    walknull,     \* a pgdir_walk for the line returned NULL
    nullderef,    \* a null pte was dereferenced for the line
    returned,     \* runcmd returned to monitor
    status,       \* the status it returned
    console,      \* what readline can return: each line with runcmd's scan of it
    hexv,         \* xtoi on its own: <<v>> when the token is v formatted, else <<>>
    hextok,       \* the token as it was handed to the first xtoi
    hexbuf,       \* the token's buffer now
    hexres        \* what each xtoi call on the buffer gave: [res, buf]

vars == <<pc, kern_pgdir, ptab, nfree, tf, ebp, showmp_begin, showmp_end, last, pt0,
          line, buf, argc, argv, calls, out, lookups, walknull, nullderef, returned, status,
          console, hexv, hextok, hexbuf, hexres>>

hexvars == <<hexv, hextok, hexbuf, hexres>>

\* one printed item
Pr(k, a, p, w, u) == [k |-> k, a |-> a, p |-> p, w |-> w, u |-> u]

(***************************************************************************)
(* The lines readline can return.                                          *)
(***************************************************************************)
RECURSIVE join(_, _)
join(ws, sep) ==
    IF ws = <<>> THEN <<>>
    ELSE IF Len(ws) = 1 THEN ws[1]
    ELSE ws[1] \o sep \o join(Tail(ws), sep)

\* the word w followed by n - 1 words a
Many(w, n) == join([i \in 1..n |-> IF i = 1 THEN w ELSE s_a], <<32>>)

Names == {commands[i].name : i \in 1..Len(commands)}

BlankLines == {<<>>, <<32>>, <<9, 13, 10, 32>>}

BareLines == Names \cup {s_hel, s_helpx, <<32, 9>> \o s_help \o <<13, 10>>,
                         s_hel \o <<9>> \o s_help}

ShortLines ==
    {join(<<c, s_0x1000>>, <<32>>) : c \in Names \cup {s_helpx}}
    \cup {join(<<s_setperm, s_0x1000, s_0>>, <<32>>)}

ShowmpLines ==
    {join(<<s_showmp, a[1], a[2]>>, <<32>>) :
        a \in {<<s_0x1000, s_0x1000>>, <<s_0x1000, s_0x2000>>,
               <<s_0x2000, s_0x1000>>, <<s_0x400000, s_0x400000>>,
               <<s_0x1001, s_0x2000>>, <<s_0xfffff000, s_0xfffff000>>}}

SetpermLines ==
    {join(<<s_setperm, s_0x1000, f, b>>, <<32>>) :
        f \in {s_0, s_1, s_a}, b \in {s_P, s_W, s_U, s_X}}
    \cup {join(<<s_setperm, s_0x400000, f, b>>, <<32, 32>>) :
        f \in {s_0, s_1}, b \in {s_W \o s_X, s_X}}

ShowvmLines ==
    {join(<<s_showvm, s_0x1000, n>>, <<9>>) : n \in {s_0x0, s_0x2}}

LongLines ==
    {join(<<c, s_0x1000, s_1, s_W, s_a>>, <<32>>) :
        c \in {s_showmp, s_setperm, s_showvm}}
    \cup {Many(s_help, n) : n \in MAXARGS - 2 .. MAXARGS + 1}
    \cup {Many(s_showmp, MAXARGS)}

Lines == BlankLines \cup BareLines \cup ShortLines \cup ShowmpLines
         \cup SetpermLines \cup ShowvmLines \cup LongLines

\* runcmd up to its dispatch, on each line: the tokenizer's result, the
\* argument strings and the index of the entry the for loop stops at (0: none)
runcmd_scan(l) ==
    LET r == tokenize(l)
        a == Args(r)
    IN  [line |-> l, toomany |-> r.toomany, buf |-> r.buf, argc |-> r.argc,
         argv |-> r.argv, args |-> a,
         idx |-> IF r.toomany \/ r.argc = 0 THEN 0 ELSE lookup(a[1], 1)]

Scanned == {runcmd_scan(l) : l \in Lines}

(***************************************************************************)
(* The states monitor can be entered in.                                   *)
(***************************************************************************)
InitTables ==
    { [pgdir |-> {},     ptab |-> [k \in {} |-> 0]],
      [pgdir |-> {0},    ptab |-> [k \in {} |-> 0]],
      [pgdir |-> {0},    ptab |-> (1 :> W(5, 99)) @@ (2 :> W(7, 5))],
      [pgdir |-> {0, 1}, ptab |-> (1 :> W(5, 99)) @@ (1024 :> W(9, 4))] }

Init ==
    /\ pc = "read"
    /\ \E t \in InitTables : kern_pgdir = t.pgdir /\ ptab = t.ptab
    /\ nfree \in 0..MaxFree
    /\ tf \in {W(0, 0), W(983056, 0)}
    /\ ebp = W(0, 0)
    /\ showmp_begin = W(0, 0)
    /\ showmp_end = W(0, 0)
    /\ last = "none"
    /\ pt0 = [pgdir |-> kern_pgdir, ptab |-> ptab, nfree |-> nfree]
    /\ line = <<>>
    /\ buf = <<>>
    /\ argc = 0
    /\ argv = Store(<<>>, 0, 0)
    /\ calls = <<>>
    /\ out = <<>>
    /\ lookups = <<>>
    /\ walknull = FALSE
    /\ nullderef = FALSE
    /\ returned = FALSE
    /\ status = 0
    /\ console = Scanned
    /\ hexv = <<>> /\ hextok = <<>> /\ hexbuf = <<>> /\ hexres = <<>>

(***************************************************************************)
(* monitor's loop and runcmd.                                              *)
(***************************************************************************)
\* mutant: <= 0
loop_exit_le(s) == s <= 0

\* if (runcmd(buf, tf) < 0) break;
loop_exit(s) == s < 0

\* runcmd returns s to monitor
Return(s) ==
    /\ returned' = TRUE
    /\ status' = s
    /\ pc' = IF loop_exit(s) THEN "exited" ELSE "read"

\* panic(): the kernel halts, nothing returns
Panic ==
    /\ returned' = FALSE
    /\ status' = 0
    /\ pc' = "panic"

NoPT == UNCHANGED <<kern_pgdir, ptab, nfree>>
NoWalk == lookups' = <<>> /\ walknull' = FALSE /\ nullderef' = FALSE
NoLoop == showmp_begin' = W(0, 0) /\ showmp_end' = W(0, 0) /\ ebp' = W(0, 0)

\* readline returned r.line and runcmd tokenized it
Accept(r) ==
    /\ pc = "read"
    /\ last' = "runcmd"
    /\ pt0' = [pgdir |-> kern_pgdir, ptab |-> ptab, nfree |-> nfree]
    /\ line' = r.line
    /\ buf' = r.buf
    /\ argc' = r.argc
    /\ argv' = r.argv
    /\ UNCHANGED <<tf, console, hexvars>>

\* buf = readline("K> ") is NULL: the loop goes round
monitor_readnull ==
    /\ pc = "read"
    /\ last' = "readnull"
    /\ pt0' = [pgdir |-> kern_pgdir, ptab |-> ptab, nfree |-> nfree]
    /\ line' = <<>> /\ buf' = <<>> /\ argc' = 0 /\ argv' = Store(<<>>, 0, 0)
    /\ calls' = <<>> /\ out' = <<>> /\ NoWalk /\ NoLoop /\ NoPT
    /\ returned' = FALSE /\ status' = 0
    /\ UNCHANGED <<pc, tf, console, hexvars>>

\* a 16th token: "Too many arguments", return 0
runcmd_toomany ==
    \E r \in console :
        /\ r.toomany
        /\ Accept(r)
        /\ calls' = <<>>
        /\ out' = <<Pr("toomany", W(0, MAXARGS), 0, 0, 0)>>
        /\ NoWalk /\ NoLoop /\ NoPT
        /\ Return(0)

\* if (argc == 0) return 0;
runcmd_empty ==
    \E r \in console :
        /\ ~r.toomany
        /\ r.argc = 0
        /\ Accept(r)
        /\ calls' = <<>>
        /\ out' = <<>>
        /\ NoWalk /\ NoLoop /\ NoPT
        /\ Return(0)

\* no entry matches: "Unknown command", return 0
runcmd_unknown ==
    \E r \in console :
        /\ ~r.toomany
        /\ r.argc # 0
        /\ r.idx = 0
        /\ Accept(r)
        /\ calls' = <<>>
        /\ out' = <<Pr("unknown", W(0, 0), 0, 0, 0)>>
        /\ NoWalk /\ NoLoop /\ NoPT
        /\ Return(0)

\* return commands[i].func(argc, argv, tf), as far as the call
Call(r, f) ==
    /\ ~r.toomany
    /\ r.argc # 0
    /\ r.idx # 0
    /\ commands[r.idx].func = f
    /\ Accept(r)
    /\ calls' = <<[idx |-> r.idx, argc |-> r.argc, argv |-> r.args, tf |-> tf]>>

(***************************************************************************)
(* The handlers.  n is argc, av the argument strings (av[k + 1] is the     *)
(* code's argv[k]), t the trap frame.                                      *)
(***************************************************************************)
\* mutant: the W column printed from the U bit
myprint_wfromu(a, v) ==
    Pr("perm", a, WAnd(v, W(0, PTE_P)).lo, WAnd(v, W(0, PTE_U)).lo, WAnd(v, W(0, PTE_U)).lo)

\* the three values myprint prints for the entry value v
myprint(a, v) ==
    Pr("perm", a, WAnd(v, W(0, PTE_P)).lo, WAnd(v, W(0, PTE_W)).lo, WAnd(v, W(0, PTE_U)).lo)

mon_help(n, av, t) ==
    /\ out' = [i \in 1..Len(commands) |-> Pr("help", W(0, i), 0, 0, 0)]
    /\ NoWalk /\ NoLoop /\ NoPT
    /\ Return(0)

mon_kerninfo(n, av, t) ==
    /\ out' = <<Pr("kerninfo", W(0, 0), 0, 0, 0)>>
    /\ NoWalk /\ NoLoop /\ NoPT
    /\ Return(0)

\* mutant: the frame is read and printed before p is tested
RECURSIVE backtrace_from_past(_, _)
backtrace_from_past(p, acc) ==
    LET o == Append(acc, Pr("frame", p, kstack(WAdd(p, 4)),
                            kstack(WAdd(p, 8)), kstack(WAdd(p, 12))))
    IN  IF p = W(0, 0) THEN o ELSE backtrace_from_past(kstack(p), o)

\* while (p) { print p and *(p+1); p = *p; }
RECURSIVE backtrace_from(_, _)
backtrace_from(p, acc) ==
    IF p = W(0, 0) THEN acc
    ELSE backtrace_from(kstack(p),
                        Append(acc, Pr("frame", p, kstack(WAdd(p, 4)),
                                       kstack(WAdd(p, 8)), kstack(WAdd(p, 12)))))

\* read_ebp() is a frame with 1 to MaxDepth frames from it to the root
mon_backtrace(n, av, t) ==
    /\ \E k \in 1..MaxDepth : ebp' = FrameAddr(k)
    /\ out' = backtrace_from(ebp', <<Pr("backtrace", W(0, 0), 0, 0, 0)>>)
    /\ showmp_begin' = W(0, 0) /\ showmp_end' = W(0, 0)
    /\ NoWalk /\ NoPT
    /\ Return(0)

\* mutant: argc < 3, more arguments than two let through
showmappings_atleast(n, av, t) ==
    IF n < 3
    THEN /\ out' = <<Pr("usage", W(0, 0), 0, 0, 0)>>
         /\ NoWalk /\ NoLoop /\ NoPT
         /\ Return(0)
    ELSE /\ showmp_begin' = xtoi(av[2]).res
         /\ showmp_end' = xtoi(av[3]).res
         /\ out' = <<Pr("from", xtoi(av[2]).res, 0, 0, 0), Pr("to", xtoi(av[3]).res, 0, 0, 0)>>
         /\ ebp' = W(0, 0)
         /\ NoWalk /\ NoPT
         /\ returned' = FALSE
         /\ status' = 0
         /\ pc' = "showmp"

\* showmappings up to its for loop
showmappings(n, av, t) ==
    IF n # 3
    THEN /\ out' = <<Pr("usage", W(0, 0), 0, 0, 0)>>
         /\ NoWalk /\ NoLoop /\ NoPT
         /\ Return(0)
    ELSE /\ showmp_begin' = xtoi(av[2]).res
         /\ showmp_end' = xtoi(av[3]).res
         /\ out' = <<Pr("from", xtoi(av[2]).res, 0, 0, 0), Pr("to", xtoi(av[3]).res, 0, 0, 0)>>
         /\ ebp' = W(0, 0)
         /\ NoWalk /\ NoPT
         /\ returned' = FALSE
         /\ status' = 0
         /\ pc' = "showmp"

\* mutant: the loop body writes the entry it reports (sets bit 0x20)
showmappings_loop_touch ==
    /\ pc = "showmp"
    /\ Len(lookups) < MaxLookups \/ ~WLe(showmp_begin, showmp_end)
    /\ UNCHANGED <<tf, console, hexvars, ebp, last, pt0, line, buf, argc, argv, calls, showmp_end, nullderef>>
    /\ IF ~WLe(showmp_begin, showmp_end)
       THEN /\ UNCHANGED <<kern_pgdir, nfree, out, lookups, walknull, showmp_begin, ptab>>
            /\ Return(0)
       ELSE LET w == pgdir_walk(kern_pgdir, nfree, showmp_begin, 1) IN
            /\ lookups' = Append(lookups, showmp_begin)
            /\ kern_pgdir' = w.pgdir
            /\ nfree' = w.nfree
            /\ walknull' = w.null
            /\ IF w.null
               THEN /\ UNCHANGED <<out, showmp_begin, ptab>>
                    /\ Panic
               ELSE /\ out' = IF WAnd(Deref(ptab, w.vpn), W(0, PTE_P)) # W(0, 0)
                              THEN out \o <<Pr("page", showmp_begin, 0, 0, 0),
                                            myprint(showmp_begin, Deref(ptab, w.vpn))>>
                              ELSE Append(out, Pr("absent", showmp_begin, 0, 0, 0))
                    /\ ptab' = Assign(ptab, w.vpn, WOr(Deref(ptab, w.vpn), W(0, 32)))
                    /\ showmp_begin' = WAdd(showmp_begin, PGSIZE)
                    /\ UNCHANGED <<pc, returned, status>>

\* one test of begin <= end and, when it holds, one pass of the loop body
showmappings_loop ==
    /\ pc = "showmp"
    /\ Len(lookups) < MaxLookups \/ ~WLe(showmp_begin, showmp_end)
    /\ UNCHANGED <<tf, console, hexvars, ebp, last, pt0, line, buf, argc, argv, calls, ptab, showmp_end, nullderef>>
    /\ IF ~WLe(showmp_begin, showmp_end)
       THEN /\ UNCHANGED <<kern_pgdir, nfree, out, lookups, walknull, showmp_begin>>
            /\ Return(0)
       ELSE LET w == pgdir_walk(kern_pgdir, nfree, showmp_begin, 1) IN
            /\ lookups' = Append(lookups, showmp_begin)
            /\ kern_pgdir' = w.pgdir
            /\ nfree' = w.nfree
            /\ walknull' = w.null
            /\ IF w.null
               THEN /\ UNCHANGED <<out, showmp_begin>>
                    /\ Panic
               ELSE /\ out' = IF WAnd(Deref(ptab, w.vpn), W(0, PTE_P)) # W(0, 0)
                              THEN out \o <<Pr("page", showmp_begin, 0, 0, 0),
                                            myprint(showmp_begin, Deref(ptab, w.vpn))>>
                              ELSE Append(out, Pr("absent", showmp_begin, 0, 0, 0))
                    /\ showmp_begin' = WAdd(showmp_begin, PGSIZE)
                    /\ UNCHANGED <<pc, returned, status>>

\* the switch on argv[3][0]: the bit selected, 0 for the default case
setm_perm(c) ==
    CASE c = 80 -> PTE_P
      [] c = 87 -> PTE_W
      [] c = 85 -> PTE_U
      [] OTHER  -> 0

\* mutant: *pte ^ perm in the else branch
setm_value_toggle(v, c, perm) ==
    IF c = 48 THEN WAnd(v, WNot(W(0, perm)))
    ELSE W(v.hi, IF BitAnd(v.lo, perm) # 0 THEN v.lo - perm ELSE v.lo + perm)

\* *pte & ~perm when argv[2][0] is '0', *pte | perm otherwise
setm_value(v, c, perm) ==
    IF c = 48 THEN WAnd(v, WNot(W(0, perm))) ELSE WOr(v, W(0, perm))

setm(n, av, t) ==
    IF n # 4
    THEN /\ out' = <<Pr("usage", W(0, 0), 0, 0, 0)>>
         /\ NoWalk /\ NoLoop /\ NoPT
         /\ Return(0)
    ELSE LET addr == xtoi(av[2]).res
             w    == pgdir_walk(kern_pgdir, nfree, addr, 1)
             perm == setm_perm(av[4][1])
             hdr  == Pr("before", addr, 0, 0, 0)
             aft  == Pr("after", addr, 0, 0, 0)
         IN
         /\ lookups' = <<addr>>
         /\ kern_pgdir' = w.pgdir
         /\ nfree' = w.nfree
         /\ NoLoop
         /\ walknull' = w.null
         /\ nullderef' = w.null
         /\ IF ~w.null
            THEN LET v == Deref(ptab, w.vpn) IN
                 IF perm = 0
                 THEN /\ out' = <<hdr, myprint(addr, v), Pr("usage", W(0, 0), 0, 0, 0)>>
                      /\ UNCHANGED ptab
                      /\ Return(0)
                 ELSE /\ ptab' = Assign(ptab, w.vpn, setm_value(v, av[3][1], perm))
                      /\ out' = <<hdr, myprint(addr, v), aft,
                                  myprint(addr, setm_value(v, av[3][1], perm))>>
                      /\ Return(0)
            ELSE \* myprint(pte) and *pte = ... go through the null pointer:
                 \* each access faults or reaches whatever is mapped at 0
                 /\ UNCHANGED ptab
                 /\ \/ out' = <<hdr>> /\ Panic
                    \/ \E g \in NullWords :
                          IF perm = 0
                          THEN /\ out' = <<hdr, myprint(addr, g), Pr("usage", W(0, 0), 0, 0, 0)>>
                               /\ Return(0)
                          ELSE \/ out' = <<hdr, myprint(addr, g)>> /\ Panic
                               \/ /\ out' = <<hdr, myprint(addr, g), aft,
                                              myprint(addr, setm_value(g, av[3][1], perm))>>
                                  /\ Return(0)

\* mutant: the usage error returns -1
showvm_neg(n, av, t) ==
    IF n # 3
    THEN /\ out' = <<Pr("usage", W(0, 0), 0, 0, 0)>>
         /\ NoWalk /\ NoLoop /\ NoPT
         /\ Return(-1)
    ELSE LET addr == xtoi(av[2]).res
             cnt  == xtoi(av[3]).res.hi * PGSIZE + xtoi(av[3]).res.lo
         IN
         /\ NoWalk /\ NoLoop /\ NoPT
         /\ \E k \in 0..cnt :
               /\ out' = [i \in 1..k |-> Pr("vm", WAdd(addr, 4 * (i - 1)), 0, 0, 0)]
               /\ IF k = cnt THEN Return(0) ELSE Panic

\* the n words from addr on, each read faulting or not
showvm(n, av, t) ==
    IF n # 3
    THEN /\ out' = <<Pr("usage", W(0, 0), 0, 0, 0)>>
         /\ NoWalk /\ NoLoop /\ NoPT
         /\ Return(0)
    ELSE LET addr == xtoi(av[2]).res
             cnt  == xtoi(av[3]).res.hi * PGSIZE + xtoi(av[3]).res.lo
         IN
         /\ NoWalk /\ NoLoop /\ NoPT
         /\ \E k \in 0..cnt :
               /\ out' = [i \in 1..k |-> Pr("vm", WAdd(addr, 4 * (i - 1)), 0, 0, 0)]
               /\ IF k = cnt THEN Return(0) ELSE Panic

call_mon_help ==
    \E r \in console : Call(r, "mon_help") /\ mon_help(r.argc, r.args, tf)

call_mon_kerninfo ==
    \E r \in console : Call(r, "mon_kerninfo") /\ mon_kerninfo(r.argc, r.args, tf)

call_mon_backtrace ==
    \E r \in console : Call(r, "mon_backtrace") /\ mon_backtrace(r.argc, r.args, tf)

call_showmappings ==
    \E r \in console : Call(r, "showmappings") /\ showmappings(r.argc, r.args, tf)

call_setm ==
    \E r \in console : Call(r, "setm") /\ setm(r.argc, r.args, tf)

call_showvm ==
    \E r \in console : Call(r, "showvm") /\ showvm(r.argc, r.args, tf)

Next ==
    \/ monitor_readnull
    \/ runcmd_toomany
    \/ runcmd_empty
    \/ runcmd_unknown
    \/ call_mon_help
    \/ call_mon_kerninfo
    \/ call_mon_backtrace
    \/ call_showmappings
    \/ call_setm
    \/ call_showvm
    \/ showmappings_loop

Spec == Init /\ [][Next]_vars

(***************************************************************************)
(* xtoi on its own: a token is put in a buffer, either a 32-bit value      *)
(* formatted by cprintf("0x%x") or a token as typed, and xtoi is called on *)
(* the buffer, more than once.                                             *)
(***************************************************************************)
\* the character of hexadecimal digit d, lowercase
HexDigit(d) == IF d < 10 THEN 48 + d ELSE 97 + d - 10

\* the k low hexadecimal digits of n, the most significant first
RECURSIVE hexdigits(_, _)
hexdigits(n, k) ==
    IF k = 0 THEN <<>> ELSE Append(hexdigits(n \div 16, k - 1), HexDigit(n % 16))

\* %x prints no leading zero, and one digit for zero
RECURSIVE strip(_)
strip(ds) == IF Len(ds) > 1 /\ ds[1] = 48 THEN strip(Tail(ds)) ELSE ds

\* cprintf("0x%x", v)
fmt_x(v) == <<48, 120>> \o strip(hexdigits(v.hi, 5) \o hexdigits(v.lo, 3))

HexValues ==
    {W(h, l) : h \in {0, 1, 10, 255, 4096, 703710, 912091, NPAGES - 1},
               l \in {0, 1, 9, 10, 15, 16, 171, 2748, 3823, PGSIZE - 1}}

\* tokens as typed: no digit, leading zeros, nine digits, uppercase digits
HexTokens ==
    {<<48, 120>>, <<48, 120, 48, 48, 102, 102>>,
     <<48, 120, 49, 100, 101, 97, 100, 98, 101, 101, 102>>,
     <<48, 120, 97, 98, 99, 100, 101, 102>>, <<48, 120, 65, 66>>}

HexIdle ==
    UNCHANGED <<pc, kern_pgdir, ptab, nfree, tf, ebp, showmp_begin, showmp_end, last,
                pt0, line, buf, argc, argv, calls, out, lookups, walknull, nullderef,
                returned, status, console>>

hex_format ==
    \E v \in HexValues :
        /\ hexv' = <<v>>
        /\ hextok' = fmt_x(v)
        /\ hexbuf' = fmt_x(v)
        /\ hexres' = <<>>
        /\ HexIdle

hex_type ==
    \E t \in HexTokens :
        /\ hexv' = <<>>
        /\ hextok' = t
        /\ hexbuf' = t
        /\ hexres' = <<>>
        /\ HexIdle

hex_xtoi ==
    /\ Len(hextok) >= 2
    /\ Len(hexres) < MaxCalls
    /\ hexres' = Append(hexres, xtoi(hexbuf))
    /\ hexbuf' = xtoi(hexbuf).buf
    /\ UNCHANGED <<hexv, hextok>>
    /\ HexIdle

HexInit == Init /\ kern_pgdir = {} /\ nfree = 0 /\ tf = W(0, 0)

HexNext == hex_format \/ hex_type \/ hex_xtoi

HexSpec == HexInit /\ [][HexNext]_vars

(***************************************************************************)
(* What the properties are stated in: the tokens of a line as the maximal  *)
(* runs of its non-whitespace characters, defined without the tokenizer,   *)
(* and the entry a virtual page has.                                       *)
(***************************************************************************)
IsWs(c) == c \in {9, 10, 13, 32}

TokenStarts(l) == {k \in 1..Len(l) : ~IsWs(l[k]) /\ (k = 1 \/ IsWs(l[k - 1]))}

NTokens(l) == Cardinality(TokenStarts(l))

TokenEnd(l, s) ==
    CHOOSE e \in s..Len(l) :
        (\A k \in s..e : ~IsWs(l[k])) /\ (e = Len(l) \/ IsWs(l[e + 1]))

Token(l, i) ==
    LET s == CHOOSE t \in TokenStarts(l) :
                 Cardinality({u \in TokenStarts(l) : u < t}) = i - 1
    IN  SubSeq(l, s, TokenEnd(l, s))

TokenSeq(l) == [i \in 1..NTokens(l) |-> Token(l, i)]

\* the lowest registry index whose name is w (0: none)
FirstMatch(w) ==
    IF \E i \in 1..Len(commands) : commands[i].name = w
    THEN CHOOSE i \in 1..Len(commands) :
             commands[i].name = w /\ \A j \in 1..i - 1 : commands[j].name # w
    ELSE 0

\* a line the tokenizer accepts whose first token is w
Invokes(l, w) == NTokens(l) \in 1..MAXARGS - 1 /\ Token(l, 1) = w

\* the value of the address tokens of the lines
AddrOf(t) ==
    CASE t = s_0x0      -> W(0, 0)
      [] t = s_0x2      -> W(0, 2)
      [] t = s_0x1000   -> W(1, 0)
      [] t = s_0x2000   -> W(2, 0)
      [] t = s_0x400000 -> W(1024, 0)
      [] t = s_0x1001   -> W(1, 1)
      [] t = s_0xfffff000 -> W(NPAGES - 1, 0)

\* the entry of virtual page n: zero where there is no table
Entry(pgdir, pt, n) ==
    IF n \div 1024 \in pgdir /\ n \in DOMAIN pt THEN pt[n] ELSE W(0, 0)

\* v with the permission bit b (1, 2 or 4) set, and cleared
HasBit(v, b) == (v.lo \div b) % 2 = 1
WithBit(v, b) == IF HasBit(v, b) THEN v ELSE W(v.hi, v.lo + b)
WithoutBit(v, b) == IF HasBit(v, b) THEN W(v.hi, v.lo - b) ELSE v

\* the bit a selector character names
BitOf(c) == CASE c = 80 -> 1 [] c = 87 -> 2 [] c = 85 -> 4

\* runcmd has run on line
Ran == last = "runcmd"

Printed(o, k) == \E i \in 1..Len(o) : o[i].k = k

\* the page directory, the tables, the entries and the free pages are what
\* they were when the line was read
SamePT == kern_pgdir = pt0.pgdir /\ ptab = pt0.ptab /\ nfree = pt0.nfree

(***************************************************************************)
(* C1.  setperm <addr> <flag> <selector> with a selector that starts with  *)
(* P, W or U, once it has returned, has changed the entry of addr in the   *)
(* selected bit only (0 when the flag starts with '0', 1 otherwise) and no *)
(* other entry.  Fails: with no table for addr and no free page the lookup *)
(* returns NULL, setm goes through the null pointer and can still return.  *)
(***************************************************************************)
C1_SetpermChangesOneBit ==
    (Ran /\ returned /\ Invokes(line, s_setperm) /\ NTokens(line) = 4
        /\ Token(line, 4)[1] \in {80, 87, 85})
    => LET n == VPN(AddrOf(Token(line, 2)))
           b == BitOf(Token(line, 4)[1])
           v == Entry(pt0.pgdir, pt0.ptab, n)
       IN  /\ Entry(kern_pgdir, ptab, n) =
                  IF Token(line, 3)[1] = 48 THEN WithoutBit(v, b) ELSE WithBit(v, b)
           /\ \A m \in ((DOMAIN ptab) \cup (DOMAIN pt0.ptab)) \ {n} :
                  Entry(kern_pgdir, ptab, m) = Entry(pt0.pgdir, pt0.ptab, m)

(***************************************************************************)
(* C2.  setperm with a selector that starts with none of P, W, U leaves    *)
(* the page directory, the tables and every entry as they were, prints the *)
(* usage message and returns 0.  Fails: setm calls pgdir_walk with         *)
(* create = 1 before it looks at the selector.                             *)
(***************************************************************************)
C2_BadSelectorMutatesNothing ==
    (Ran /\ Invokes(line, s_setperm) /\ NTokens(line) = 4
        /\ Token(line, 4)[1] \notin {80, 87, 85})
    => (SamePT /\ Printed(out, "usage") /\ returned /\ status = 0)

(***************************************************************************)
(* C3.  When a lookup of showmp or setperm fails, the kernel panics: the   *)
(* null result is not dereferenced, runcmd returns no status and the loop  *)
(* reads no other line.  Fails for setperm: setm has no test of pte.       *)
(***************************************************************************)
C3_FailedLookupPanics ==
    walknull => (pc = "panic" /\ ~nullderef /\ ~returned)

(***************************************************************************)
(* C4.  As claimed: each of the six commands, given a number of arguments  *)
(* other than the one its syntax names, prints only a usage string, does   *)
(* none of its work and returns 0.  Fails: mon_help, mon_kerninfo and      *)
(* mon_backtrace never look at argc.                                       *)
(***************************************************************************)
\* the number of tokens the syntax of command w names
Arity(w) ==
    CASE w = s_showmp  -> 3
      [] w = s_setperm -> 4
      [] w = s_showvm  -> 3
      [] OTHER         -> 1

UsageOnly ==
    /\ out = <<Pr("usage", W(0, 0), 0, 0, 0)>>
    /\ lookups = <<>>
    /\ SamePT
    /\ returned /\ status = 0 /\ pc = "read"

C4_EveryCommandChecksCount ==
    (Ran /\ NTokens(line) \in 1..15 /\ FirstMatch(Token(line, 1)) # 0
        /\ NTokens(line) # Arity(Token(line, 1)))
    => UsageOnly

(***************************************************************************)
(* C4, amended.  showmp, setperm and showvm, given a number of arguments   *)
(* other than the one their syntax names, print only a usage string, do    *)
(* no lookup, mutation or dump and return 0; help, kerninfo and backtrace  *)
(* do their work whatever the arguments, print no usage string and         *)
(* return 0.                                                               *)
(***************************************************************************)
C4_ArgumentCommandsCheckCount ==
    (Ran /\ NTokens(line) \in 1..15)
    => /\ (Token(line, 1) \in {s_showmp, s_setperm, s_showvm}
              /\ NTokens(line) # Arity(Token(line, 1)))
          => UsageOnly
       /\ Token(line, 1) \in {s_help, s_kerninfo, s_backtrace}
          => /\ ~Printed(out, "usage")
             /\ Token(line, 1) = s_help
                => (Len(out) = Len(commands) /\ \A i \in 1..Len(out) : out[i].k = "help")
             /\ Token(line, 1) = s_kerninfo => Printed(out, "kerninfo")
             /\ Token(line, 1) = s_backtrace => (Printed(out, "backtrace") /\ Printed(out, "frame"))
             /\ SamePT
             /\ returned /\ status = 0 /\ pc = "read"

C4_Witness ==
    Ran /\ Invokes(line, s_setperm) /\ NTokens(line) = 3 /\ Printed(out, "usage")

(***************************************************************************)
(* C5.  For a line whose first token is the name of a registry entry,      *)
(* runcmd makes exactly one call, to the lowest-index entry of that name,  *)
(* with every token of the line as argv and monitor's trap frame, and what *)
(* runcmd returns is what the handler returned (0 for every handler).      *)
(***************************************************************************)
C5_FirstMatchDispatch ==
    (Ran /\ NTokens(line) \in 1..15 /\ FirstMatch(Token(line, 1)) # 0)
    => /\ Len(calls) = 1
       /\ calls[1].idx = FirstMatch(Token(line, 1))
       /\ calls[1].argc = NTokens(line)
       /\ calls[1].argv = TokenSeq(line)
       /\ calls[1].tf = tf
       /\ returned => status = 0

C5_Witness ==
    /\ Ran /\ Invokes(line, s_showvm) /\ NTokens(line) = 3
    /\ Len(calls) = 1 /\ calls[1].idx = 6 /\ calls[1].tf # W(0, 0)
    /\ returned

(***************************************************************************)
(* C6.  After a line is processed the loop exits exactly when runcmd       *)
(* returned a negative status; on every other status (usage errors,        *)
(* unknown commands, empty and over-long lines) it reads another line.     *)
(***************************************************************************)
C6_LoopExitsIffNegative ==
    /\ returned => /\ (pc = "exited") <=> (status < 0)
                   /\ (pc = "read") <=> (status >= 0)
    /\ pc = "exited" => returned

C6_Witness ==
    Ran /\ returned /\ status = 0 /\ pc = "read" /\ Printed(out, "toomany")

C8_ArgvWithinCapacity ==
    Ran =>
       /\ \A i \in DOMAIN argv : i \in 0..15 /\ (argv[i] # 0 => i <= 14)
       /\ NTokens(line) > 15
          => /\ out = <<Pr("toomany", W(0, 16), 0, 0, 0)>>
             /\ calls = <<>>
             /\ returned /\ status = 0
       /\ NTokens(line) = 15
          => /\ argc = 15 /\ argv[15] = 0
             /\ ~Printed(out, "toomany")
             /\ FirstMatch(Token(line, 1)) # 0
                => (Len(calls) = 1 /\ calls[1].argc = 15 /\ calls[1].argv = TokenSeq(line))

C8_Witness ==
    Ran /\ NTokens(line) = 15 /\ Len(calls) = 1 /\ argv[14] # 0 /\ returned

(***************************************************************************)
(* C9.  A line that is empty or all whitespace (tab, carriage return,      *)
(* newline, space) gives zero tokens: runcmd returns 0, calls no handler   *)
(* and prints nothing.                                                     *)
(***************************************************************************)
C9_BlankLineIsNoOp ==
    (Ran /\ \A k \in 1..Len(line) : IsWs(line[k]))
    => /\ argc = 0 /\ argv[0] = 0
       /\ calls = <<>>
       /\ out = <<>>
       /\ returned /\ status = 0 /\ pc = "read"

C9_Witness ==
    Ran /\ line = <<9, 13, 10, 32>> /\ argc = 0 /\ returned

(***************************************************************************)
(* C10.  For a line whose first token is the name of no registry entry (a  *)
(* strict prefix or an extension of a name included), runcmd calls no      *)
(* handler, reports the unknown command, returns 0 and leaves the page     *)
(* table as it was; the loop reads another line.                           *)
(***************************************************************************)
C10_UnknownCommand ==
    (Ran /\ NTokens(line) \in 1..15 /\ FirstMatch(Token(line, 1)) = 0)
    => /\ calls = <<>>
       /\ out = <<Pr("unknown", W(0, 0), 0, 0, 0)>>
       /\ SamePT
       /\ returned /\ status = 0 /\ pc = "read"

C10_Witness ==
    /\ Ran /\ NTokens(line) = 2 /\ Token(line, 1) = s_hel /\ Token(line, 2) = s_help
    /\ Printed(out, "unknown") /\ returned

(***************************************************************************)
(* C11.  showmp <start> <end> with start <= end, once it has returned, has *)
(* looked up exactly the page-aligned addresses of [start, end], each once *)
(* and in increasing order.  Fails: the loop starts at start itself and    *)
(* steps by the page size, so with a start that is not page-aligned no     *)
(* address looked up is page-aligned and the page of end can be missed.    *)
(***************************************************************************)
\* the page-aligned addresses of [s, e], in increasing order
AlignedIn(s, e) ==
    LET first == IF s.lo = 0 THEN s.hi ELSE s.hi + 1
    IN  [i \in 1..(e.hi - first + 1) |-> W(first + i - 1, 0)]

\* showmp ran on the line with two address tokens
ShowmpRan == Ran /\ Invokes(line, s_showmp) /\ NTokens(line) = 3

C11_ShowmpVisitsAlignedRange ==
    (ShowmpRan /\ returned
        /\ WLe(AddrOf(Token(line, 2)), AddrOf(Token(line, 3))))
    => lookups = AlignedIn(AddrOf(Token(line, 2)), AddrOf(Token(line, 3)))

(***************************************************************************)
(* C12.  For every address showmp has visited, the page is reported        *)
(* present exactly when the Present bit of its entry is set, and then the  *)
(* P, W and U values printed are the entry masked with PTE_P, PTE_W and    *)
(* PTE_U; with the Present bit clear the page is reported absent and no    *)
(* permission values are printed for it.                                   *)
(***************************************************************************)
\* what is to be printed for address a
ReportOf(a) ==
    LET v == Entry(kern_pgdir, ptab, VPN(a))
    IN  IF HasBit(v, 1)
        THEN <<Pr("page", a, 0, 0, 0),
               Pr("perm", a, 1, IF HasBit(v, 2) THEN 2 ELSE 0, IF HasBit(v, 4) THEN 4 ELSE 0)>>
        ELSE <<Pr("absent", a, 0, 0, 0)>>

RECURSIVE Reports(_)
Reports(as) == IF as = <<>> THEN <<>> ELSE ReportOf(Head(as)) \o Reports(Tail(as))

\* the addresses whose lookup gave an entry
Visited == IF walknull THEN SubSeq(lookups, 1, Len(lookups) - 1) ELSE lookups

C12_ReportMatchesEntry ==
    ShowmpRan =>
       /\ Len(out) >= 2 /\ out[1].k = "from" /\ out[2].k = "to"
       /\ SubSeq(out, 3, Len(out)) = Reports(Visited)

C12_Witness ==
    /\ ShowmpRan /\ returned /\ Len(lookups) = 2
    /\ \E i \in 1..Len(out) : out[i].k = "perm" /\ out[i].p = 1 /\ out[i].w = 2 /\ out[i].u = 0
    /\ Printed(out, "absent")

(***************************************************************************)
(* C13.  Hex round trip: xtoi of the token cprintf("0x%x", v) gives is v,  *)
(* for every 32-bit value v.                                               *)
(***************************************************************************)
C13_HexRoundTrip ==
    (hexv # <<>> /\ hexres # <<>>) => hexres[1].res = hexv[1]

C13_Witness ==
    /\ hexv = <<W(912091, 3823)>>
    /\ hextok = <<48, 120, 100, 101, 97, 100, 98, 101, 101, 102>>
    /\ hexres # <<>> /\ hexres[1].res = W(912091, 3823)

(***************************************************************************)
(* C17.  xtoi rewrites its token in place, every character c >= 'a' to     *)
(* '0' + 10 + (c - 'a'), and parsing is stable under the rewrite: for a    *)
(* token 0x followed by characters of 0-9a-f, a later xtoi call on the     *)
(* same buffer returns the value the first call returned and leaves the    *)
(* buffer as the first call left it.                                       *)
(***************************************************************************)
IsHexTok(t) ==
    /\ Len(t) >= 2 /\ t[1] = 48 /\ t[2] = 120
    /\ \A i \in 3..Len(t) : t[i] \in (48..57) \cup (97..102)

C17_XtoiStableUnderRewrite ==
    (IsHexTok(hextok) /\ hexres # <<>>)
    => /\ hexres[1].buf =
              [i \in 1..Len(hextok) |->
                  IF i >= 3 /\ hextok[i] >= 97 THEN 48 + 10 + (hextok[i] - 97)
                  ELSE hextok[i]]
       /\ \A k \in 2..Len(hexres) :
              hexres[k].res = hexres[1].res /\ hexres[k].buf = hexres[k - 1].buf

C17_Witness ==
    /\ hextok = <<48, 120, 97, 98, 99, 100, 101, 102>>
    /\ Len(hexres) = 2
    /\ hexres[1].buf = <<48, 120, 58, 59, 60, 61, 62, 63>>
    /\ hexres[2].res = W(2748, 3567)

(***************************************************************************)
(* C14.  On a chain of k >= 1 frames from the current frame to the root    *)
(* frame, whose saved frame pointer is zero, mon_backtrace returns, having *)
(* printed after its heading exactly the k frames in chain order, the      *)
(* current frame first and the root frame last, each with its own frame    *)
(* pointer and return address; no frame is printed for the zero frame      *)
(* pointer, that is, nothing is read through it.                           *)
(***************************************************************************)
BacktraceRan ==
    Ran /\ Len(calls) = 1 /\ commands[calls[1].idx].func = "mon_backtrace"

\* the number of frames from the frame at address a to the root
DepthOf(a) == CHOOSE k \in 1..MaxDepth : a = FrameAddr(k)

C14_BacktraceVisitsChain ==
    BacktraceRan
    => /\ \E k \in 1..MaxDepth : ebp = FrameAddr(k)
       /\ Len(out) = DepthOf(ebp) + 1
       /\ out[1].k = "backtrace"
       /\ \A i \in 1..DepthOf(ebp) :
             /\ out[i + 1].k = "frame"
             /\ out[i + 1].a = FrameAddr(DepthOf(ebp) - i + 1)
             /\ out[i + 1].a # W(0, 0)
             /\ out[i + 1].p = W(983296, 16 * (DepthOf(ebp) - i + 1))
       /\ returned /\ status = 0 /\ pc = "read"

C14_Witness ==
    /\ BacktraceRan /\ returned
    /\ ebp = FrameAddr(3)
    /\ Len(out) = 4 /\ out[2].a = FrameAddr(3) /\ out[4].a = FrameAddr(1)

(***************************************************************************)
(* C15.  showmp <start> <end> whose lookups succeed terminates and returns *)
(* 0, whatever the two addresses: with start > end it makes no lookup;     *)
(* it makes at most one lookup per page of [start, end]; and once it has   *)
(* looked up an address in the page of end, its loop test fails, the last  *)
(* page of the address space included.  Fails: with end in the last page,  *)
(* begin += PGSIZE wraps to a small address, begin <= end holds again and  *)
(* the loop goes on from the bottom of the address space.                  *)
(***************************************************************************)
C15_ShowmpTerminates ==
    ShowmpRan
    => LET s == AddrOf(Token(line, 2))
           e == AddrOf(Token(line, 3))
       IN  /\ ~WLe(s, e) => lookups = <<>>
           /\ WLe(s, e) => Len(lookups) <= e.hi - s.hi + 1
           /\ (pc = "showmp" /\ ~walknull /\ lookups # <<>>
                  /\ lookups[Len(lookups)].hi = e.hi)
              => ~WLe(showmp_begin, e)
           /\ returned => (status = 0 /\ pc = "read")

(***************************************************************************)
(* C16.  For a line of at most 15 tokens, what runcmd has built is the     *)
(* sequence of the maximal runs of non-whitespace characters of the line,  *)
(* left to right: argc is their number, argv[i] points at the start of     *)
(* the i-th run, whose characters are untouched in the buffer and followed *)
(* by a terminator (the overwritten whitespace, or the end of the line),   *)
(* no token holds a whitespace character or is empty, and argv[argc] is    *)
(* null.                                                                   *)
(***************************************************************************)
\* where the i-th run of l starts
TokenStart(l, i) ==
    CHOOSE t \in TokenStarts(l) : Cardinality({u \in TokenStarts(l) : u < t}) = i - 1

C16_ArgvIsTheTokens ==
    (Ran /\ NTokens(line) <= 15)
    => /\ argc = NTokens(line)
       /\ DOMAIN argv = 0..argc
       /\ argv[argc] = 0
       /\ Len(buf) = Len(line)
       /\ \A i \in 1..argc :
             LET b == TokenStart(line, i)
                 e == TokenEnd(line, b)
             IN  /\ argv[i - 1] = b
                 /\ e >= b
                 /\ \A k \in b..e : buf[k] = line[k] /\ buf[k] # 0 /\ ~IsWs(buf[k])
                 /\ e < Len(line) => (IsWs(line[e + 1]) /\ buf[e + 1] = 0)

C16_Witness ==
    /\ Ran /\ argc = 3 /\ argv[3] = 0
    /\ \E k \in 1..Len(line) : line[k] = 9 /\ buf[k] = 0
    /\ argv[1] = Len(s_showvm) + 2

(***************************************************************************)
(* C18.  setperm is idempotent and reversible bit by bit.  When a setperm  *)
(* with selector P, W or U has returned and the next line is a setperm on  *)
(* the same address with the same selector: if it is the same line, it     *)
(* leaves the page directory, the tables, the entries and the free pages   *)
(* as the first left them; if the first cleared a bit that was set and the *)
(* second sets it, or the first set a bit that was clear and the second    *)
(* clears it, the entry is again what it was before the first.             *)
(***************************************************************************)
SetpermLine(l) ==
    Invokes(l, s_setperm) /\ NTokens(l) = 4 /\ Token(l, 4)[1] \in {80, 87, 85}

C18_Step ==
    (/\ pc = "read" /\ last = "runcmd" /\ returned /\ last' = "runcmd"
     /\ Len(calls) = 1 /\ Len(calls') = 1
     /\ SetpermLine(line) /\ SetpermLine(line')
     /\ Token(line', 2) = Token(line, 2)
     /\ Token(line', 4)[1] = Token(line, 4)[1])
    => LET n  == VPN(AddrOf(Token(line, 2)))
           b  == BitOf(Token(line, 4)[1])
           c0 == Token(line, 3)[1] = 48
           c1 == Token(line', 3)[1] = 48
           v0 == Entry(pt0.pgdir, pt0.ptab, n)
       IN  /\ line' = line
              => (kern_pgdir' = kern_pgdir /\ ptab' = ptab /\ nfree' = nfree)
           /\ (c0 /\ ~c1 /\ HasBit(v0, b)) => Entry(kern_pgdir', ptab', n) = v0
           /\ (~c0 /\ c1 /\ ~HasBit(v0, b)) => Entry(kern_pgdir', ptab', n) = v0

C18_SetpermIdempotentReversible == [][C18_Step]_vars

\* a second `setperm 0x1000 0 W` has returned: the entry of page 1 had lost
\* its W bit to the first
C18_Witness ==
    /\ Ran /\ returned /\ ~walknull
    /\ line = s_setperm \o <<32>> \o s_0x1000 \o <<32>> \o s_0 \o <<32>> \o s_W
    /\ Entry(pt0.pgdir, pt0.ptab, 1) = W(5, 97)
    /\ Entry(kern_pgdir, ptab, 1) = W(5, 97)

(***************************************************************************)
(* C19.  showmp is read-only on the entries: at every point of a showmp    *)
(* call every entry that existed when the line was read has its value,    *)
(* the page tables that were there are there, and the only change is that  *)
(* tables absent before have been allocated, each for an address looked up *)
(* and each taking one free page; the entries of a newly allocated table   *)
(* are not Present.                                                        *)
(***************************************************************************)
ShowmpCalled ==
    Ran /\ Len(calls) = 1 /\ commands[calls[1].idx].func = "showmappings"

C19_ShowmpReadOnly ==
    ShowmpCalled
    => /\ ptab = pt0.ptab
       /\ pt0.pgdir \subseteq kern_pgdir
       /\ kern_pgdir \ pt0.pgdir \subseteq {PDX(lookups[i]) : i \in 1..Len(lookups)}
       /\ nfree = pt0.nfree - Cardinality(kern_pgdir \ pt0.pgdir)
       /\ \A m \in DOMAIN ptab : m \div 1024 \in pt0.pgdir
       /\ \A i \in 1..Len(lookups) :
             PDX(lookups[i]) \notin pt0.pgdir
             => ~HasBit(Entry(kern_pgdir, ptab, VPN(lookups[i])), 1)

C19_Witness ==
    /\ ShowmpCalled /\ returned
    /\ 1 \notin pt0.pgdir /\ kern_pgdir = pt0.pgdir \cup {1}
    /\ ptab = (1 :> W(5, 99)) @@ (2 :> W(7, 5))
    /\ lookups = <<W(1024, 0)>> /\ Printed(out, "absent")

====
